---- MODULE Spec2Model ----
(***************************************************************************)
(* Ego trajectory pipeline (bounding boxes + depth maps):                  *)
(*   tracking.py   load_bboxes, bbox_to_pixel, centers_from_csv            *)
(*   depth_xyz.py  load_xyz, robust_xyz_at                                 *)
(*   geometry.py   rot2d, align_and_negate                                 *)
(*   main.py       collect_camera_to_light_vectors, main                   *)
(*                                                                         *)
(* Numbers.  A float is an integer count of a fixed unit, or one of the    *)
(* three non-finite values NaN, PosInf, NegInf.  Box coordinates count     *)
(* pixels, raw frame ids count half frames (so 3 is the CSV value 1.5),    *)
(* camera coordinates count 1e-12 m, top_bias counts 1/BiasDen.            *)
(***************************************************************************)
EXTENDS Integers, Sequences, FiniteSets

\* ------------------------------------------------------------------ bounds
MaxRows == 2
BiasDen == 20
MaxH == 2
MaxW == 3
MaxVecs == 2
TrigBits == 6

\* ------------------------------------------------------- floats, as modelled
\* float("nan"), float("inf"), float("-inf"): what pd.to_numeric(errors="coerce")
\* leaves for a non-numeric cell and what np.isfinite rejects.
NaN == 2000000001
PosInf == 2000000002
NegInf == 2000000003

IsNaN(x) == x = NaN
IsInf(x) == x = PosInf \/ x = NegInf
IsFinite(x) == ~IsNaN(x) /\ ~IsInf(x)

Abs(x) == IF x < 0 THEN -x ELSE x
Sign(x) == IF x > 0 THEN 1 ELSE IF x < 0 THEN -1 ELSE 0
Min2(a, b) == IF a < b THEN a ELSE b
Max2(a, b) == IF a > b THEN a ELSE b

\* IEEE negation, product and sum on the modelled floats.
FNeg(a) ==
    IF IsNaN(a) THEN NaN
    ELSE IF a = PosInf THEN NegInf
    ELSE IF a = NegInf THEN PosInf
    ELSE -a

FMul(a, b) ==
    IF IsNaN(a) \/ IsNaN(b) THEN NaN
    ELSE IF IsInf(a) \/ IsInf(b) THEN
        LET sa == IF a = PosInf THEN 1 ELSE IF a = NegInf THEN -1 ELSE Sign(a)
            sb == IF b = PosInf THEN 1 ELSE IF b = NegInf THEN -1 ELSE Sign(b)
        IN  IF sa * sb = 0 THEN NaN ELSE IF sa * sb > 0 THEN PosInf ELSE NegInf
    ELSE a * b

FAdd(a, b) ==
    IF IsNaN(a) \/ IsNaN(b) THEN NaN
    ELSE IF IsInf(a) /\ IsInf(b) THEN (IF a = b THEN a ELSE NaN)
    ELSE IF IsInf(a) THEN a
    ELSE IF IsInf(b) THEN b
    ELSE a + b

\* Python's round(): n/d to the nearest integer, ties to the even one (d > 0).
RoundHalfEven(n, d) ==
    LET q == n \div d
        r == n - q * d
    IN  IF 2 * r < d THEN q
        ELSE IF 2 * r > d THEN q + 1
        ELSE IF q % 2 = 0 THEN q ELSE q + 1

\* ------------------------------------------------------------- sequences
Range(s) == {s[i] : i \in DOMAIN s}

SelectIdx(s, Keep(_)) ==
    LET F[i \in 0..Len(s)] ==
            IF i = 0 THEN <<>>
            ELSE IF Keep(s[i]) THEN Append(F[i - 1], s[i]) ELSE F[i - 1]
    IN  F[Len(s)]

Perms(n) == {p \in [1..n -> 1..n] : \A i, j \in 1..n : i # j => p[i] # p[j]}

SeqsUpTo(S, n) == UNION {[1..m -> S] : m \in 0..n}

VARIABLES
    \* tracking.py: one call of load_bboxes / centers_from_csv
    csv_cols, table, cbias, cleaned, centers, cerr, cstage,
    \* tracking.py: bbox_to_pixel on one row with two biases
    prow, pb1, pb2, pix1, pix2, pstage,
    \* depth_xyz.py: one call of robust_xyz_at
    xyz, du, dv, dk, sample, dstage,
    \* geometry.py: one call of align_and_negate
    p_cam, traj, aerr, astage,
    \* main.py: one run of main on a dataset directory
    csv_exists, xyz_dir, npz, top_bias, k_patch,
    pc, outputs_dir, out_files, stdout, fids, idx, used, skipped_missing, traj_xy, err

cleanVars == <<csv_cols, table, cbias, cleaned, centers, cerr, cstage>>
pixVars == <<prow, pb1, pb2, pix1, pix2, pstage>>
depthVars == <<xyz, du, dv, dk, sample, dstage>>
alignVars == <<p_cam, traj, aerr, astage>>
datasetVars == <<csv_exists, xyz_dir, npz, top_bias, k_patch>>
mainVars == <<pc, outputs_dir, out_files, stdout, fids, idx, used, skipped_missing, traj_xy, err>>
runVars == <<datasetVars, mainVars>>
vars == <<cleanVars, pixVars, depthVars, alignVars, runVars>>

\* ================================================================ tracking.py
\* A raw CSV row: five cells, each a number or NaN (a cell that did not coerce).
Row(f, xa, ya, xb, yb) ==
    [frame_id |-> f, x_min |-> xa, y_min |-> ya, x_max |-> xb, y_max |-> yb]

\* df.dropna(subset=REQUIRED_COLUMNS)
NotNa(r) ==
    /\ ~IsNaN(r.frame_id)
    /\ ~IsNaN(r.x_min) /\ ~IsNaN(r.y_min) /\ ~IsNaN(r.x_max) /\ ~IsNaN(r.y_max)

\* zero_box: the "no detection" sentinel
ZeroBox(r) == r.x_min = 0 /\ r.y_min = 0 /\ r.x_max = 0 /\ r.y_max = 0
NotZeroBox(r) == ~ZeroBox(r)

\* The two masked swaps, each axis on its own.
FixInverted(r) ==
    LET xs == r.x_max < r.x_min
        ys == r.y_max < r.y_min
    IN  [frame_id |-> r.frame_id,
         x_min |-> IF xs THEN r.x_max ELSE r.x_min,
         x_max |-> IF xs THEN r.x_min ELSE r.x_max,
         y_min |-> IF ys THEN r.y_max ELSE r.y_min,
         y_max |-> IF ys THEN r.y_min ELSE r.y_max]

ValidNonStrict(r) == (r.x_max - r.x_min >= 0) /\ (r.y_max - r.y_min >= 0)
\* valid = (width > 0) & (height > 0)
Valid(r) == (r.x_max - r.x_min > 0) /\ (r.y_max - r.y_min > 0)

\* astype(int) on the half-frame count: truncation toward zero.
AsTypeInt(f) == IF f >= 0 THEN f \div 2 ELSE -((-f) \div 2)
CastFrame(r) == [r EXCEPT !.frame_id = AsTypeInt(r.frame_id)]

MapSeq(s, Op(_)) == [i \in DOMAIN s |-> Op(s[i])]

IsSortedByFrame(s) == \A i \in 1..(Len(s) - 1) : s[i].frame_id <= s[i + 1].frame_id

\* The orders a sort may leave the rows in.
Reorderings(s) == {[i \in 1..Len(s) |-> s[p[i]]] : p \in Perms(Len(s))}

SortValuesKeepsOrder(s) == {s}
\* df.sort_values("frame_id"): pandas' default kind is quicksort, which is not
\* stable, so rows of equal frame_id may come out in any order.
SortValues(s) == {t \in Reorderings(s) : IsSortedByFrame(t)}

\* load_bboxes after the column check: the data frames it may return.
\* The empty frame stands for the ValueError raised at the end.
LoadBboxes(t) ==
    LET numeric == SelectIdx(t, NotNa)
        nonzero == SelectIdx(numeric, NotZeroBox)
        fixed == MapSeq(nonzero, FixInverted)
        kept == SelectIdx(fixed, Valid)
        cast == MapSeq(kept, CastFrame)
    IN  SortValues(cast)

\* bbox_to_pixel for a bias in [0, 1]: (u, v).
BboxToPixelNegBias(row, b) ==
    <<RoundHalfEven(row.x_min + row.x_max, 2),
      RoundHalfEven(BiasDen * row.y_min - b * (row.y_max - row.y_min), BiasDen)>>
BboxToPixel(row, b) ==
    <<RoundHalfEven(row.x_min + row.x_max, 2),
      RoundHalfEven(BiasDen * row.y_min + b * (row.y_max - row.y_min), BiasDen)>>

BiasAlwaysInRange(b) == TRUE
\* 0.0 <= top_bias <= 1.0
BiasInRange(b) == 0 <= b /\ b <= BiasDen

\* The dict built by centers_from_csv: a later row of a frame overwrites an
\* earlier one.
LastIndexOf(df, f) ==
    CHOOSE i \in DOMAIN df :
        /\ df[i].frame_id = f
        /\ \A j \in DOMAIN df : df[j].frame_id = f => j <= i
CentersOf(df, b) ==
    [f \in {df[i].frame_id : i \in DOMAIN df} |-> BboxToPixel(df[LastIndexOf(df, f)], b)]

\* ---- inputs of the cleaning specification
\* Frame cells 0, 1.0 and 1.5 (two of them cast to frame 1) and a cell that is
\* not a number; x and y extents that are zero, upright, inverted or not numbers.
FrameCells == {NaN, 0, 2, 3}
XPairs == {<<0, 0>>, <<1, 4>>, <<4, 1>>, <<NaN, 3>>}
YPairs == {<<0, 0>>, <<2, 6>>, <<6, 2>>}
RawRows == {Row(f, x[1], y[1], x[2], y[2]) : f \in FrameCells, x \in XPairs, y \in YPairs}
CleanBiases == {7, BiasDen + 1}

\* A CSV lacking a required column is given no rows: they are never read.
CleanInput ==
    /\ csv_cols \in BOOLEAN
    /\ table \in (IF csv_cols THEN SeqsUpTo(RawRows, MaxRows) ELSE {<<>>})
    /\ cbias = 0
    /\ cleaned = <<>> /\ centers = [f \in {} |-> <<0, 0>>]
    /\ cerr = "none" /\ cstage = "raw"

\* load_bboxes(csv_path), the CSV existing.
LoadBboxesCall ==
    /\ cstage = "raw"
    /\ IF ~csv_cols
       THEN cleaned' = <<>> /\ cerr' = "schema" /\ cstage' = "raised"
       ELSE \E df \in LoadBboxes(table) :
              IF df = <<>>
              THEN cleaned' = <<>> /\ cerr' = "empty" /\ cstage' = "raised"
              ELSE cleaned' = df /\ cerr' = "none" /\ cstage' = "loaded"
    /\ UNCHANGED <<csv_cols, table, cbias, centers>>
    /\ UNCHANGED <<pixVars, depthVars, alignVars, runVars>>

\* centers_from_csv(csv_path, top_bias): load_bboxes, then bbox_to_pixel per row.
CentersFromCsvCall ==
    /\ cstage = "raw"
    /\ \E b \in CleanBiases :
         /\ cbias' = b
         /\ IF ~csv_cols
            THEN cleaned' = <<>> /\ cerr' = "schema" /\ cstage' = "raised"
                 /\ UNCHANGED centers
            ELSE \E df \in LoadBboxes(table) :
                   IF df = <<>>
                   THEN cleaned' = <<>> /\ cerr' = "empty" /\ cstage' = "raised"
                        /\ UNCHANGED centers
                   ELSE IF ~BiasInRange(b)
                   THEN cleaned' = df /\ cerr' = "range" /\ cstage' = "raised"
                        /\ UNCHANGED centers
                   ELSE cleaned' = df /\ centers' = CentersOf(df, b) /\ cerr' = "none"
                        /\ cstage' = "centers"
    /\ UNCHANGED <<csv_cols, table>>
    /\ UNCHANGED <<pixVars, depthVars, alignVars, runVars>>

CleanIdle ==
    /\ csv_cols = TRUE /\ table = <<>> /\ cbias = 0
    /\ cleaned = <<>> /\ centers = [f \in {} |-> <<0, 0>>]
    /\ cerr = "none" /\ cstage = "idle"
PixIdle ==
    /\ prow = Row(0, 0, 0, 1, 1) /\ pb1 = 0 /\ pb2 = 0
    /\ pix1 = <<0, 0>> /\ pix2 = <<0, 0>> /\ pstage = "idle"
DepthIdle ==
    /\ xyz = <<>> /\ du = 0 /\ dv = 0 /\ dk = 0 /\ sample = <<0, 0, 0>> /\ dstage = "idle"
AlignIdle ==
    /\ p_cam = <<>> /\ traj = <<>> /\ aerr = "none" /\ astage = "idle"
RunIdle ==
    /\ csv_exists = TRUE /\ xyz_dir = TRUE /\ npz = <<>> /\ top_bias = 0 /\ k_patch = 0
    /\ pc = "idle" /\ outputs_dir = FALSE /\ out_files = {} /\ stdout = <<>>
    /\ fids = <<>> /\ idx = 0 /\ used = 0 /\ skipped_missing = 0
    /\ traj_xy = <<>> /\ err = "none"

CleanNext == LoadBboxesCall \/ CentersFromCsvCall
InitClean == CleanInput /\ PixIdle /\ DepthIdle /\ AlignIdle /\ RunIdle
SpecClean == InitClean /\ [][CleanNext]_vars

\* ---- one row, two biases
PixelRows ==
    {Row(0, x[1], ya, x[2], ya + h) : x \in {<<1, 4>>, <<0, 3>>}, ya \in {0, 3}, h \in {1, 2, 3, 7, 20}}

PixelInput ==
    /\ prow \in PixelRows
    /\ pb1 = 0 /\ pb2 = 0 /\ pix1 = <<0, 0>> /\ pix2 = <<0, 0>> /\ pstage = "row"

\* bbox_to_pixel(row, b1) and bbox_to_pixel(row, b2) with 0 <= b1 < b2 <= 1.
BboxToPixelPair ==
    /\ pstage = "row"
    /\ \E b1, b2 \in 0..BiasDen :
         /\ b1 < b2
         /\ pb1' = b1 /\ pb2' = b2
         /\ pix1' = BboxToPixel(prow, b1)
         /\ pix2' = BboxToPixel(prow, b2)
    /\ pstage' = "done"
    /\ UNCHANGED prow
    /\ UNCHANGED <<cleanVars, depthVars, alignVars, runVars>>

\* bbox_to_pixel with a bias outside [0, 1]: ValueError, no pixel.
BboxToPixelOutOfRange ==
    /\ pstage = "row"
    /\ \E b \in {-1, BiasDen + 1} :
         /\ ~BiasInRange(b)
         /\ pb1' = b /\ pb2' = b
    /\ pstage' = "raised"
    /\ UNCHANGED <<prow, pix1, pix2>>
    /\ UNCHANGED <<cleanVars, depthVars, alignVars, runVars>>

PixelNext == BboxToPixelPair \/ BboxToPixelOutOfRange
InitPixel == CleanIdle /\ PixelInput /\ DepthIdle /\ AlignIdle /\ RunIdle
SpecPixel == InitPixel /\ [][PixelNext]_vars

\* =============================================================== depth_xyz.py
\* A depth array: nch channels per pixel (robust_xyz_at wants 3) and the pixels
\* px[row][col], each an <<X, Y, Z>>, rows 0..H-1 and columns 0..W-1.
Height(m) == Cardinality(DOMAIN m.px)
Width(m) == Cardinality(DOMAIN m.px[0])

\* np.clip(x, lo, hi)
Clip(x, lo, hi) == IF x < lo THEN lo ELSE IF x > hi THEN hi ELSE x

\* np.isfinite(patch).all(axis=1)
VecFinite(p) == IsFinite(p[1]) /\ IsFinite(p[2]) /\ IsFinite(p[3])
\* np.linalg.norm(patch, axis=1) > 0.0: false for a NaN norm and for the zero
\* vector, true for every other vector.
VecNonzero(p) ==
    /\ ~IsNaN(p[1]) /\ ~IsNaN(p[2]) /\ ~IsNaN(p[3])
    /\ (p[1] # 0 \/ p[2] # 0 \/ p[3] # 0)
GoodVec(p) == VecFinite(p) /\ VecNonzero(p)

\* The k-th smallest (k from 1) of a non-empty sequence of finite numbers.
KthSmallest(s, k) ==
    CHOOSE x \in Range(s) :
        /\ Cardinality({i \in DOMAIN s : s[i] < x}) < k
        /\ Cardinality({i \in DOMAIN s : s[i] <= x}) >= k

\* np.median over one column: the middle value, or the mean of the two middle
\* ones (map entries are even counts, so that mean is a whole count).
Median(s) ==
    LET n == Len(s)
    IN  IF n % 2 = 1 THEN KthSmallest(s, (n + 1) \div 2)
        ELSE (KthSmallest(s, n \div 2) + KthSmallest(s, n \div 2 + 1)) \div 2

\* xyz[v1:v2, u1:u2, :].reshape(-1, 3): the window's pixels in row-major order.
Patch(m, v1, v2, u1, u2) ==
    LET w == u2 - u1
    IN  [i \in 1..((v2 - v1) * w) |-> m.px[v1 + ((i - 1) \div w)][u1 + ((i - 1) % w)]]

\* half = max(1, k // 2)
Half(k) == Max2(1, k \div 2)

FallbackZero(m, v, u) == <<0, 0, 0>>
\* X, Y, Z = xyz[v, u]: the stored vector, whatever it holds.
Fallback(m, v, u) == m.px[v][u]

\* robust_xyz_at(xyz, u, v, k) on an (H, W, 3) array.
RobustXyzAt(m, u, v, k) ==
    LET H == Height(m)
        W == Width(m)
        uc == Clip(u, 0, W - 1)
        vc == Clip(v, 0, H - 1)
        half == Half(k)
        u1 == Max2(0, uc - half)
        u2 == Min2(W, uc + half + 1)
        v1 == Max2(0, vc - half)
        v2 == Min2(H, vc + half + 1)
        good == SelectIdx(Patch(m, v1, v2, u1, u2), GoodVec)
    IN  IF good = <<>> THEN Fallback(m, vc, uc)
        ELSE <<Median([i \in DOMAIN good |-> good[i][1]]),
               Median([i \in DOMAIN good |-> good[i][2]]),
               Median([i \in DOMAIN good |-> good[i][3]])>>

\* xyz.ndim != 3 or xyz.shape[-1] != 3
ShapeOk(m) == m.nch = 3

\* ---- inputs of the sampling specification
ZeroVec == <<0, 0, 0>>
NaNVec == <<NaN, 2, 4>>
DepthVals == {ZeroVec, NaNVec, <<PosInf, 0, 0>>, <<2, 4, 6>>, <<8, -2, 4>>}
Pixels(h, w) == (0..(h - 1)) \X (0..(w - 1))

\* A map that is one background value but for up to two pixels.
SparseMaps(h, w) ==
    {[nch |-> 3,
      px |-> [r \in 0..(h - 1) |-> [c \in 0..(w - 1) |->
                 IF <<r, c>> \in DOMAIN sp THEN sp[<<r, c>>] ELSE bg]]] :
        bg \in DepthVals,
        sp \in UNION {[P -> DepthVals] : P \in {Q \in SUBSET Pixels(h, w) : Cardinality(Q) <= 2}}}

DepthMaps ==
    UNION {SparseMaps(h, w) : h \in 1..MaxH, w \in 1..MaxW}
        \cup {[nch |-> 4, px |-> [r \in 0..0 |-> [c \in 0..0 |-> <<2, 4, 6>>]]]}

PatchSizes == {-1, 3, 5}

DepthInput ==
    /\ xyz \in DepthMaps
    /\ du \in {-1, 1, MaxW + 1}
    /\ dv \in {-1, 0, MaxH + 1}
    /\ dk \in PatchSizes
    /\ sample = <<0, 0, 0>> /\ dstage = "map"

\* robust_xyz_at returns a sample.
RobustXyzAtCall ==
    /\ dstage = "map"
    /\ ShapeOk(xyz)
    /\ sample' = RobustXyzAt(xyz, du, dv, dk)
    /\ dstage' = "sampled"
    /\ UNCHANGED <<xyz, du, dv, dk>>
    /\ UNCHANGED <<cleanVars, pixVars, alignVars, runVars>>

\* robust_xyz_at raises ValueError on an array that is not (H, W, 3).
RobustXyzAtRaise ==
    /\ dstage = "map"
    /\ ~ShapeOk(xyz)
    /\ dstage' = "raised"
    /\ UNCHANGED <<xyz, du, dv, dk, sample>>
    /\ UNCHANGED <<cleanVars, pixVars, alignVars, runVars>>

DepthNext == RobustXyzAtCall \/ RobustXyzAtRaise
InitDepth == CleanIdle /\ PixIdle /\ DepthInput /\ AlignIdle /\ RunIdle
SpecDepth == InitDepth /\ [][DepthNext]_vars

\* ================================================================ geometry.py
\* 1e-9 m, the near-zero threshold, in units of 1e-12 m.
NearZero == 1000

\* Trigonometric results are floats: each is the true value rounded to the
\* nearest multiple of 2^-TrigBits (float64 rounds to 53 significant bits).
\* Products with, and sums of, such values are exact here, so every output
\* coordinate of align_and_negate counts units of 1e-12 m / TrigScale.
RECURSIVE Pow2(_)
Pow2(n) == IF n = 0 THEN 1 ELSE 2 * Pow2(n - 1)
TrigScale == Pow2(TrigBits)

RECURSIVE Gcd(_, _)
Gcd(a, b) == IF b = 0 THEN a ELSE Gcd(b, a % b)

\* np.arctan2(y, x) for finite (x, y) # (0, 0).  The angle is named by the
\* primitive integer direction it points in.
Arctan2(y, x) ==
    LET g == Gcd(Abs(x), Abs(y))
    IN  <<x \div g, y \div g>>

\* -theta
NegAngle(theta) == <<theta[1], -theta[2]>>

\* The nearest integer to TrigScale * a / sqrt(a^2 + b^2), for a >= 0.
RoundedRatio(a, b) ==
    CHOOSE q \in 0..TrigScale :
        /\ (2 * q - 1 <= 0) \/ ((2 * q - 1) * (2 * q - 1) * (a * a + b * b)
                                   <= 4 * TrigScale * TrigScale * a * a)
        /\ (2 * q + 1) * (2 * q + 1) * (a * a + b * b) > 4 * TrigScale * TrigScale * a * a

\* np.cos(theta), np.sin(theta), times TrigScale.
Cos(theta) == Sign(theta[1]) * RoundedRatio(Abs(theta[1]), Abs(theta[2]))
Sin(theta) == Sign(theta[2]) * RoundedRatio(Abs(theta[2]), Abs(theta[1]))

Rot2dTransposed(theta) ==
    <<<<Cos(theta), Sin(theta)>>,
      <<-Sin(theta), Cos(theta)>>>>
\* rot2d(theta) = [[c, -s], [s, c]]
Rot2d(theta) ==
    <<<<Cos(theta), -Sin(theta)>>,
      <<Sin(theta), Cos(theta)>>>>

\* R @ p for one column vector p.
MatVec(R, p) ==
    <<FAdd(FMul(R[1][1], p[1]), FMul(R[1][2], p[2])),
      FAdd(FMul(R[2][1], p[1]), FMul(R[2][2], p[2]))>>

\* np.isfinite(np.linalg.norm(p0))
NormFinite(p) == IsFinite(p[1]) /\ IsFinite(p[2])
NormSq(p) == p[1] * p[1] + p[2] * p[2]

DegenerateTinyThreshold(p0) == ~NormFinite(p0) \/ NormSq(p0) < 1
\* not np.isfinite(norm0) or norm0 < 1e-9
Degenerate(p0) == ~NormFinite(p0) \/ NormSq(p0) < NearZero * NearZero

\* align_and_negate(p_cam): err names the ValueError raised ("none": it
\* returned), traj is the (N, 2) trajectory returned.
AlignAndNegate(p) ==
    IF Len(p) = 0 THEN [err |-> "empty", traj |-> <<>>]
    ELSE IF Degenerate(p[1]) THEN [err |-> "degenerate", traj |-> <<>>]
    ELSE LET theta0 == Arctan2(p[1][2], p[1][1])
             R == Rot2d(NegAngle(theta0))
         IN  [err |-> "none",
              traj |-> [i \in DOMAIN p |->
                          LET a == MatVec(R, p[i]) IN <<FNeg(a[1]), FNeg(a[2])>>]]

\* ---- inputs of the alignment specification
\* First vectors: zero, 1e-12 m along x, just under and just over the
\* threshold, not finite, and finite vectors in all four quadrants and on the
\* axes.  The magnitude exactly 1e-9 is left out: whether a float norm lands
\* under the threshold there is a matter of its last bit.
FirstVecs ==
    {<<0, 0>>, <<1, 0>>, <<600, 700>>, <<0, -999>>, <<1001, 0>>, <<NaN, 3000>>,
     <<3000, PosInf>>, <<NegInf, NaN>>, <<3000, 4000>>, <<3000, 1000>>, <<-3000, 4000>>,
     <<-2000, -1000>>, <<4000, -3000>>, <<0, -2000>>, <<-5000, 0>>, <<2000, 2000>>}
LaterVecs == {<<2000, 1000>>, <<NaN, 0>>, <<0, 0>>, <<PosInf, 1000>>, <<-1000, 3000>>}
VecSeqs ==
    {<<>>} \cup {<<f>> \o t : f \in FirstVecs, t \in SeqsUpTo(LaterVecs, MaxVecs - 1)}

AlignInput ==
    /\ p_cam \in VecSeqs
    /\ traj = <<>> /\ aerr = "none" /\ astage = "input"

\* align_and_negate returns a trajectory.
AlignAndNegateCall ==
    /\ astage = "input"
    /\ AlignAndNegate(p_cam).err = "none"
    /\ traj' = AlignAndNegate(p_cam).traj
    /\ astage' = "returned"
    /\ UNCHANGED <<p_cam, aerr>>
    /\ UNCHANGED <<cleanVars, pixVars, depthVars, runVars>>

\* align_and_negate raises ValueError: empty input or unusable first vector.
AlignAndNegateRaise ==
    /\ astage = "input"
    /\ AlignAndNegate(p_cam).err # "none"
    /\ aerr' = AlignAndNegate(p_cam).err
    /\ astage' = "raised"
    /\ UNCHANGED <<p_cam, traj>>
    /\ UNCHANGED <<cleanVars, pixVars, depthVars, runVars>>

AlignNext == AlignAndNegateCall \/ AlignAndNegateRaise
InitAlign == CleanIdle /\ PixIdle /\ DepthIdle /\ AlignInput /\ RunIdle
SpecAlign == InitAlign /\ [][AlignNext]_vars

\* ============================================== depth_xyz.py: the NPZ loader
\* An NPZ file: whether it exists, and its named arrays.  An array has ndim
\* dimensions and, when ndim = 3, nch channels per pixel px[row][col].
NpzKey(file) ==
    IF "points" \in DOMAIN file.arrays THEN "points"
    ELSE IF "xyz" \in DOMAIN file.arrays THEN "xyz"
    ELSE "none"

FirstThree(arr) ==
    [nch |-> 3,
     px |-> [r \in DOMAIN arr.px |-> [c \in DOMAIN arr.px[r] |->
                <<arr.px[r][c][1], arr.px[r][c][2], arr.px[r][c][3]>>]]]

\* load_xyz(npz_path): err names what it raised ("none": it returned xyz).
\* It prints nothing and keeps no state between calls.
LoadXyz(file) ==
    LET none == [nch |-> 0, px |-> <<>>]
    IN  IF ~file.present THEN [err |-> "notfound", xyz |-> none, printed |-> <<>>]
        ELSE IF NpzKey(file) = "none" THEN [err |-> "format", xyz |-> none, printed |-> <<>>]
        ELSE LET arr == file.arrays[NpzKey(file)]
             IN  IF arr.ndim # 3 THEN [err |-> "format", xyz |-> none, printed |-> <<>>]
                 ELSE IF arr.nch = 3
                      THEN [err |-> "none", xyz |-> [nch |-> 3, px |-> arr.px], printed |-> <<>>]
                 ELSE IF arr.nch = 4
                      THEN [err |-> "none", xyz |-> FirstThree(arr), printed |-> <<>>]
                 ELSE [err |-> "format", xyz |-> none, printed |-> <<>>]

\* ==================================================================== main.py
NpzAlwaysExists(files, fid) == TRUE
\* npz_path.exists() for xyz/depth{fid:06d}.npz
NpzExists(files, fid) == files[fid].present

SortedKeysDescending(c) ==
    CHOOSE s \in [1..Cardinality(DOMAIN c) -> DOMAIN c] :
        \A i, j \in DOMAIN s : i < j => s[i] > s[j]
\* sorted(centers.keys())
SortedKeys(c) ==
    CHOOSE s \in [1..Cardinality(DOMAIN c) -> DOMAIN c] :
        \A i, j \in DOMAIN s : i < j => s[i] < s[j]

\* ---- the datasets
\* Frame f's camera-to-light vector and a neighbour, as in a 1 x 3 depth map.
FrameVec(f) == <<6000 - 1000 * f, 2000, 10000>>
NearVec(f) == <<6400 - 1000 * f, 2400, 10000>>
With4th(p) == <<p[1], p[2], p[3], 2>>
Row1x3(a, b, c) == [r \in 0..0 |-> [col \in 0..2 |-> IF col = 0 THEN a ELSE IF col = 1 THEN b ELSE c]]

NpzMissing == [present |-> FALSE, arrays |-> [key \in {} |-> 0]]
NpzPoints3(f) ==
    [present |-> TRUE,
     arrays |-> [key \in {"points"} |->
                   [ndim |-> 3, nch |-> 3, px |-> Row1x3(FrameVec(f), NearVec(f), NearVec(f))]]]
\* Both names present, 'points' a 4-channel array and 'xyz' an unusable one.
NpzPoints4(f) ==
    [present |-> TRUE,
     arrays |-> [key \in {"points", "xyz"} |->
                   IF key = "points"
                   THEN [ndim |-> 3, nch |-> 4,
                         px |-> Row1x3(With4th(FrameVec(f)), With4th(NearVec(f)), With4th(NearVec(f)))]
                   ELSE [ndim |-> 2, nch |-> 0, px |-> <<>>]]]
\* No valid vector anywhere: NaN at the edge columns, zero in the middle.
NpzXyzNaN ==
    [present |-> TRUE,
     arrays |-> [key \in {"xyz"} |->
                   [ndim |-> 3, nch |-> 3, px |-> Row1x3(NaNVec, ZeroVec, NaNVec)]]]
NpzOtherKey ==
    [present |-> TRUE,
     arrays |-> [key \in {"depth"} |-> [ndim |-> 3, nch |-> 3, px |-> Row1x3(ZeroVec, ZeroVec, ZeroVec)]]]
NpzFiveChannels ==
    [present |-> TRUE,
     arrays |-> [key \in {"points"} |-> [ndim |-> 3, nch |-> 5, px |-> <<>>]]]
NpzTwoDims ==
    [present |-> TRUE,
     arrays |-> [key \in {"points"} |-> [ndim |-> 2, nch |-> 0, px |-> <<>>]]]
\* One unreadable container per frame: no known key, five channels, two dimensions.
NpzBad(f) == IF f = 0 THEN NpzOtherKey ELSE IF f = 1 THEN NpzFiveChannels ELSE NpzTwoDims
NpzFiles(f) == {NpzMissing, NpzPoints3(f), NpzPoints4(f), NpzXyzNaN, NpzBad(f)}

RunFrameCells == {0, 2, 3, 4}
RunFrames == {AsTypeInt(c) : c \in RunFrameCells}
RunRows ==
    {Row(f, 0, 2, 1, 6) : f \in RunFrameCells}
        \cup {Row(f, 5, 7, 2, 3) : f \in {2, 3}}
        \cup {Row(0, 0, 0, 0, 0)}
NpzDirs ==
    {f \in [RunFrames -> UNION {NpzFiles(g) : g \in RunFrames}] :
        \A g \in RunFrames : f[g] \in NpzFiles(g)}

\* A dataset with its CSV and its xyz directory; or one lacking the CSV, a CSV
\* column or the directory (its rows and files are then never read); or a run
\* given a top_bias outside [0, 1].
RunInput ==
    /\ \/ /\ csv_exists = TRUE /\ csv_cols = TRUE /\ xyz_dir = TRUE
          /\ table \in SeqsUpTo(RunRows, MaxRows)
          /\ npz \in NpzDirs
          /\ top_bias = 7
       \/ /\ csv_exists = TRUE /\ csv_cols = TRUE /\ xyz_dir = TRUE
          /\ table \in SeqsUpTo(RunRows, 1)
          /\ npz = [g \in RunFrames |-> NpzPoints3(g)]
          /\ top_bias \in {-1, BiasDen + 1}
       \/ /\ csv_exists = FALSE /\ csv_cols = TRUE /\ xyz_dir \in BOOLEAN
          /\ table = <<>> /\ npz = [g \in RunFrames |-> NpzMissing] /\ top_bias = 7
       \/ /\ csv_exists = TRUE /\ csv_cols = FALSE /\ xyz_dir = TRUE
          /\ table = <<>> /\ npz = [g \in RunFrames |-> NpzMissing] /\ top_bias = 7
       \/ /\ csv_exists = TRUE /\ csv_cols = TRUE /\ xyz_dir = FALSE
          /\ table = <<>> /\ npz = [g \in RunFrames |-> NpzMissing] /\ top_bias = 7
    /\ k_patch = 3
    /\ centers = [f \in {} |-> <<0, 0>>] /\ p_cam = <<>>
    /\ pc = "main" /\ outputs_dir = FALSE /\ out_files = {} /\ stdout = <<>>
    /\ fids = <<>> /\ idx = 0 /\ used = 0 /\ skipped_missing = 0
    /\ traj_xy = <<>> /\ err = "none"

cleanRest == <<cbias, cleaned, cerr, cstage>>
alignRest == <<traj, aerr, astage>>
otherVars == <<cleanRest, alignRest, pixVars, depthVars, datasetVars, csv_cols, table>>

\* main: parse the arguments, outputs_dir.mkdir(parents=True, exist_ok=True).
MainMkdirOutputs ==
    /\ pc = "main"
    /\ outputs_dir' = TRUE
    /\ pc' = "collect"
    /\ UNCHANGED <<out_files, stdout, fids, idx, used, skipped_missing, traj_xy, err>>
    /\ UNCHANGED <<centers, p_cam, otherVars>>

\* collect_camera_to_light_vectors up to its loop: the two existence checks and
\* centers_from_csv; an exception ends the run.
CollectStart ==
    /\ pc = "collect"
    /\ IF ~csv_exists \/ ~xyz_dir
       THEN pc' = "aborted" /\ err' = "notfound" /\ UNCHANGED <<centers, fids, idx>>
       ELSE IF ~csv_cols
       THEN pc' = "aborted" /\ err' = "schema" /\ UNCHANGED <<centers, fids, idx>>
       ELSE \E df \in LoadBboxes(table) :
              IF df = <<>>
              THEN pc' = "aborted" /\ err' = "norows" /\ UNCHANGED <<centers, fids, idx>>
              ELSE IF ~BiasInRange(top_bias)
              THEN pc' = "aborted" /\ err' = "range" /\ UNCHANGED <<centers, fids, idx>>
              ELSE /\ centers' = CentersOf(df, top_bias)
                   /\ fids' = SortedKeys(centers')
                   /\ idx' = 1
                   /\ pc' = "loop" /\ err' = "none"
    /\ UNCHANGED <<outputs_dir, out_files, stdout, used, skipped_missing, traj_xy>>
    /\ UNCHANGED <<p_cam, otherVars>>

\* One iteration for a frame whose NPZ file does not exist: count it, continue.
LoopSkipMissing ==
    /\ pc = "loop" /\ idx <= Len(fids)
    /\ ~NpzExists(npz, fids[idx])
    /\ skipped_missing' = skipped_missing + 1
    /\ idx' = idx + 1
    /\ UNCHANGED <<pc, outputs_dir, out_files, stdout, fids, used, traj_xy, err>>
    /\ UNCHANGED <<centers, p_cam, otherVars>>

\* One iteration for a frame whose NPZ file exists: load_xyz, robust_xyz_at,
\* append (X, Y); an exception of either ends the run.
LoopSample ==
    /\ pc = "loop" /\ idx <= Len(fids)
    /\ NpzExists(npz, fids[idx])
    /\ LET fid == fids[idx]
           loaded == LoadXyz(npz[fid])
       IN  IF loaded.err # "none"
           THEN /\ pc' = "aborted" /\ err' = loaded.err
                /\ stdout' = stdout \o loaded.printed
                /\ UNCHANGED <<p_cam, used, idx>>
           ELSE IF ~ShapeOk(loaded.xyz)
           THEN /\ pc' = "aborted" /\ err' = "shape"
                /\ stdout' = stdout \o loaded.printed
                /\ UNCHANGED <<p_cam, used, idx>>
           ELSE LET s == RobustXyzAt(loaded.xyz, centers[fid][1], centers[fid][2], k_patch)
                IN  /\ p_cam' = Append(p_cam, <<s[1], s[2]>>)
                    /\ used' = used + 1
                    /\ idx' = idx + 1
                    /\ stdout' = stdout \o loaded.printed
                    /\ UNCHANGED <<pc, err>>
    /\ UNCHANGED <<outputs_dir, out_files, fids, skipped_missing, traj_xy>>
    /\ UNCHANGED <<centers, otherVars>>

\* After the loop: RuntimeError when no frame was used, else the two prints
\* and the return of the (N, 2) array.
CollectFinish ==
    /\ pc = "loop" /\ idx > Len(fids)
    /\ IF used = 0
       THEN pc' = "aborted" /\ err' = "noframes" /\ UNCHANGED stdout
       ELSE pc' = "align" /\ UNCHANGED err
            /\ stdout' = stdout \o <<"sanity", "stats">>
    /\ UNCHANGED <<outputs_dir, out_files, fids, idx, used, skipped_missing, traj_xy>>
    /\ UNCHANGED <<centers, p_cam, otherVars>>

\* traj_xy = align_and_negate(p_cam)
MainAlign ==
    /\ pc = "align"
    /\ LET a == AlignAndNegate(p_cam)
       IN  IF a.err # "none"
           THEN pc' = "aborted" /\ err' = a.err /\ UNCHANGED traj_xy
           ELSE pc' = "plot" /\ traj_xy' = a.traj /\ UNCHANGED err
    /\ UNCHANGED <<outputs_dir, out_files, stdout, fids, idx, used, skipped_missing>>
    /\ UNCHANGED <<centers, p_cam, otherVars>>

TrajFinite(t) == \A i \in DOMAIN t : IsFinite(t[i][1]) /\ IsFinite(t[i][2])

\* save_traj_png writes outputs/trajectory.png, then main prints its summary.
MainSavePng ==
    /\ pc = "plot"
    /\ out_files' = out_files \cup {"trajectory.png"}
    /\ stdout' = stdout \o <<"done", "summary">>
    /\ pc' = "done"
    /\ UNCHANGED <<outputs_dir, fids, idx, used, skipped_missing, traj_xy, err>>
    /\ UNCHANGED <<centers, p_cam, otherVars>>

\* save_traj_png on a trajectory with a non-finite coordinate: the axis limits
\* it computes are not finite, and the plotting library (outside this
\* repository) may refuse them before anything is saved.
MainSavePngRefused ==
    /\ pc = "plot"
    /\ ~TrajFinite(traj_xy)
    /\ pc' = "aborted" /\ err' = "plot"
    /\ UNCHANGED <<outputs_dir, out_files, stdout, fids, idx, used, skipped_missing, traj_xy>>
    /\ UNCHANGED <<centers, p_cam, otherVars>>

RunNext ==
    \/ MainMkdirOutputs
    \/ CollectStart
    \/ LoopSkipMissing
    \/ LoopSample
    \/ CollectFinish
    \/ MainAlign
    \/ MainSavePng
    \/ MainSavePngRefused
InitRun ==
    /\ RunInput /\ PixIdle /\ DepthIdle
    /\ cbias = 0 /\ cleaned = <<>> /\ cerr = "none" /\ cstage = "idle"
    /\ traj = <<>> /\ aerr = "none" /\ astage = "idle"
SpecRun == InitRun /\ [][RunNext]_vars

\* ================================================================= claims
\* What a run's inputs hold, read off the dataset alone.
Survives(r) ==
    /\ \A c \in {r.frame_id, r.x_min, r.y_min, r.x_max, r.y_max} : c # NaN
    /\ ~(r.x_min = 0 /\ r.y_min = 0 /\ r.x_max = 0 /\ r.y_max = 0)
    /\ r.x_min # r.x_max /\ r.y_min # r.y_max
CleanFrames == {table[i].frame_id \div 2 : i \in {j \in DOMAIN table : Survives(table[j])}}
MissingFrames == {f \in CleanFrames : ~npz[f].present}
UsableFrames == CleanFrames \ MissingFrames
IthSmallest(S, i) == CHOOSE x \in S : Cardinality({y \in S : y < x}) = i - 1
ChosenArray(file) ==
    IF "points" \in DOMAIN file.arrays THEN file.arrays["points"] ELSE file.arrays["xyz"]
Readable(file) ==
    /\ file.present
    /\ DOMAIN file.arrays \cap {"points", "xyz"} # {}
    /\ ChosenArray(file).ndim = 3 /\ ChosenArray(file).nch \in {3, 4}
LoopEnded ==
    \/ pc \in {"align", "plot", "done"}
    \/ pc = "aborted" /\ err \in {"noframes", "empty", "degenerate", "plot"}

\* C3: a cleaned frame with no depth file is skipped and counted, never an
\* abort while another frame is usable; when the loop ends the skipped count
\* is the number of cleaned frame ids absent from the depth source, and used
\* plus skipped is the number of cleaned frame ids.
C3_SkippedCountsMissing ==
    /\ pc = "loop" =>
         /\ skipped_missing = Cardinality({i \in 1..(idx - 1) : fids[i] \in MissingFrames})
         /\ used = Cardinality({i \in 1..(idx - 1) : fids[i] \notin MissingFrames})
    /\ LoopEnded =>
         /\ skipped_missing = Cardinality(MissingFrames)
         /\ used + skipped_missing = Cardinality(CleanFrames)
    /\ (pc = "aborted" /\ err = "noframes") => UsableFrames = {}
    /\ (pc = "aborted" /\ err = "notfound") => ~csv_exists \/ ~xyz_dir

\* A finished run that skipped frame 1, whose depth file is absent, and went
\* on to use frame 2.
C3_Witness ==
    /\ pc = "done"
    /\ CleanFrames = {1, 2}
    /\ ~npz[1].present /\ npz[2].present
    /\ skipped_missing = 1 /\ used = 1

\* The taxonomy errors, as the run's inputs decide them.
AllInvalidMap(file) ==
    \A r \in DOMAIN ChosenArray(file).px : \A c \in DOMAIN ChosenArray(file).px[r] :
        LET p == ChosenArray(file).px[r][c]
        IN  (\E i \in 1..3 : p[i] \in {NaN, PosInf, NegInf}) \/ (p[1] = 0 /\ p[2] = 0 /\ p[3] = 0)
InputFault ==
    \/ ~csv_cols
    \/ top_bias < 0 \/ top_bias > BiasDen
    \/ CleanFrames = {}
    \/ UsableFrames = {}
    \/ \E f \in UsableFrames : ~Readable(npz[f])
    \/ AllInvalidMap(npz[IthSmallest(UsableFrames, 1)])

\* C4: a run of main that ends in a taxonomy error (missing columns, bad depth
\* container, top_bias out of range, no valid rows, no usable frame, degenerate
\* reference) aborts with no file written under outputs/: only a run that
\* reaches its end writes trajectory.png, and no run with such a fault does.
\* (The empty outputs directory itself exists by then: main creates it first.)
C4_NoOutputOnTaxonomyError ==
    /\ pc = "aborted" => out_files = {}
    /\ out_files # {} => pc = "done" /\ out_files = {"trajectory.png"}
    /\ (csv_exists /\ xyz_dir /\ InputFault) => out_files = {} /\ pc # "done"

\* A run that sampled two frames and then aborted on a degenerate reference.
C4_Witness ==
    /\ pc = "aborted" /\ err = "degenerate"
    /\ used >= 2
    /\ outputs_dir /\ out_files = {}

WarnCount == Cardinality({i \in DOMAIN stdout : stdout[i] = "warn4"})
FourChannelLoaded ==
    \E i \in 1..(idx - 1) :
        /\ npz[fids[i]].present
        /\ Readable(npz[fids[i]])
        /\ ChosenArray(npz[fids[i]]).nch = 4

\* C5: within one run the loader warns exactly once, on the first container
\* whose array has last dimension 4, and never for 3-channel containers.
C5_WarnsOnceOnFirstFourChannel ==
    pc \in {"loop", "align", "plot", "done"} =>
        WarnCount = (IF FourChannelLoaded THEN 1 ELSE 0)

SampleOf(f) ==
    LET m == ChosenArray(npz[f])
        s == RobustXyzAt([nch |-> 3, px |-> m.px], centers[f][1], centers[f][2], k_patch)
    IN  <<s[1], s[2]>>

\* C10: frames are processed in ascending frame_id order and one CameraVector
\* is appended per cleaned frame_id that has a depth file: when the loop has
\* ended the i-th vector is the sample of the i-th smallest usable frame_id,
\* so the reference vector is the sample of the smallest usable frame_id.
C10_VectorsInFrameOrder ==
    /\ pc = "loop" => Len(p_cam) = used
    /\ LoopEnded =>
         /\ Len(p_cam) = Cardinality(UsableFrames)
         /\ \A i \in DOMAIN p_cam : p_cam[i] = SampleOf(IthSmallest(UsableFrames, i))
    /\ pc \in {"plot", "done"} => Len(traj_xy) = Len(p_cam)

\* A CSV listing frame 2 before frame 0, both with depth files, run to its end.
C10_Witness ==
    /\ pc = "done"
    /\ Len(table) = 2 /\ table[1].frame_id > table[2].frame_id
    /\ Len(p_cam) = 2 /\ p_cam[1] # p_cam[2]
    /\ p_cam[1] = SampleOf(0)

\* C7: align_and_negate raises, and returns no trajectory, on the empty
\* sequence and on every sequence whose first vector has a magnitude that is
\* not finite or is below 1e-9, whatever the later vectors are.
C7_DegenerateReferenceRejected ==
    (/\ astage # "input"
     /\ \/ Len(p_cam) = 0
        \/ \E i \in 1..2 : p_cam[1][i] \in {NaN, PosInf, NegInf}
        \/ p_cam[1][1] * p_cam[1][1] + p_cam[1][2] * p_cam[1][2] < 1000000)
    => astage = "raised" /\ traj = <<>> /\ aerr # "none"

\* The first vector (1e-12, 0) followed by a usable vector.
C7_Witness ==
    /\ astage = "raised"
    /\ Len(p_cam) >= 2
    /\ p_cam[1] = <<1, 0>>
    /\ p_cam[2] = <<2000, 1000>>

\* C8 as stated: for a first vector of finite magnitude >= 1e-9 the first
\* EgoPosition has y = 0 exactly and negative x.
C8_FirstExactlyOnAxis ==
    astage = "returned" => traj[1][2] = 0 /\ traj[1][1] < 0

\* C8 amended: the first EgoPosition has negative x, and y = 0 up to the
\* rounding of the rotation's cos and sin: |y| <= (|p0.x| + |p0.y|) / 2 in
\* units of the last place kept by cos and sin.
C8_FirstOnAxisUpToRounding ==
    astage = "returned" =>
        /\ traj[1][1] < 0
        /\ 2 * Abs(traj[1][2]) <= Abs(p_cam[1][1]) + Abs(p_cam[1][2])
        /\ Len(traj) = Len(p_cam)

\* A first vector off the axes, with later vectors, aligned.
C8_Witness ==
    /\ astage = "returned"
    /\ p_cam[1] = <<3000, 4000>>
    /\ Len(p_cam) >= 2
    /\ traj[1][2] # 0

\* The window robust_xyz_at reads, from the call's arguments alone.
ClippedU == Clip(du, 0, Width(xyz) - 1)
ClippedV == Clip(dv, 0, Height(xyz) - 1)
HalfWidth == IF dk \div 2 > 1 THEN dk \div 2 ELSE 1
InWindow(r, c) ==
    /\ r \in DOMAIN xyz.px /\ c \in DOMAIN xyz.px[0]
    /\ Abs(r - ClippedV) <= HalfWidth /\ Abs(c - ClippedU) <= HalfWidth
Invalid(p) == (\E i \in 1..3 : ~IsFinite(p[i])) \/ p = <<0, 0, 0>>
WindowAllInvalid ==
    \A r \in DOMAIN xyz.px : \A c \in DOMAIN xyz.px[0] :
        InWindow(r, c) => Invalid(xyz.px[r][c])

\* C6: when every vector of the bounds-clipped window around the clipped pixel
\* is invalid (a non-finite component, or the zero vector), robust_xyz_at
\* returns the vector stored at the clipped pixel as it is, without raising.
C6_AllInvalidFallsBack ==
    (dstage # "map" /\ xyz.nch = 3 /\ WindowAllInvalid) =>
        /\ dstage = "sampled"
        /\ sample = xyz.px[ClippedV][ClippedU]

\* An out-of-bounds pixel whose clipped window is all invalid (zero and NaN
\* mixed) while a valid vector lies outside the window; the NaN vector at the
\* clipped pixel comes back.
C6_Witness ==
    /\ dstage = "sampled"
    /\ WindowAllInvalid
    /\ du < 0
    /\ sample = NaNVec
    /\ \E r \in DOMAIN xyz.px : \E c \in DOMAIN xyz.px[0] :
         InWindow(r, c) /\ xyz.px[r][c] = ZeroVec
    /\ \E r \in DOMAIN xyz.px : \E c \in DOMAIN xyz.px[0] :
         ~InWindow(r, c) /\ ~Invalid(xyz.px[r][c])

FrameIds(df) == {df[i].frame_id : i \in DOMAIN df}
Returned == cstage \in {"loaded", "centers"}

\* C1: every row load_bboxes returns has x_max > x_min and y_max > y_min and is
\* not the all-zero box, whatever the raw table held (inverted boxes, cells
\* that are not numbers, all-zero sentinel rows).
C1_CleanedBoxesValid ==
    Returned =>
        /\ cleaned # <<>>
        /\ \A i \in DOMAIN cleaned :
             /\ cleaned[i].x_max > cleaned[i].x_min
             /\ cleaned[i].y_max > cleaned[i].y_min
             /\ ~ZeroBox(cleaned[i])
             /\ NotNa(cleaned[i])

\* A table with a box inverted on both axes that survives, repaired, beside a
\* row that was dropped.
C1_Witness ==
    /\ cstage = "loaded"
    /\ Len(table) = 2 /\ Len(cleaned) = 1
    /\ \E i \in DOMAIN table :
         /\ NotNa(table[i])
         /\ table[i].x_max < table[i].x_min /\ table[i].y_max < table[i].y_min
         /\ cleaned[1].x_min = table[i].x_max /\ cleaned[1].y_min = table[i].y_max
    /\ \E j \in DOMAIN table : ~NotNa(table[j]) \/ ZeroBox(table[j]) \/ table[j].x_min = table[j].x_max

\* C2 as stated: the rows load_bboxes returns are ordered ascending by frame_id
\* and no two of them carry the same integer frame_id.
C2_FrameIdsUniqueAndSorted ==
    Returned =>
        /\ IsSortedByFrame(cleaned)
        /\ \A i, j \in DOMAIN cleaned : i # j => cleaned[i].frame_id # cleaned[j].frame_id

\* C2 amended: the rows load_bboxes returns are ordered by non-decreasing
\* integer frame_id (rows of one frame are all kept); only the keys of the
\* dict built by centers_from_csv are one per frame, each holding the pixel of
\* one of that frame's rows.
C2_SortedAndCentersKeyed ==
    Returned =>
        /\ IsSortedByFrame(cleaned)
        /\ cstage = "centers" =>
             /\ DOMAIN centers = FrameIds(cleaned)
             /\ \A f \in DOMAIN centers :
                  \E i \in DOMAIN cleaned :
                     cleaned[i].frame_id = f /\ centers[f] = BboxToPixel(cleaned[i], cbias)

\* Raw frame cells 1.0 and 1.5 both cast to frame 1: two rows, one key.
C2_Witness ==
    /\ cstage = "centers"
    /\ Len(cleaned) = 2
    /\ cleaned[1].frame_id = cleaned[2].frame_id
    /\ table[1].frame_id # table[2].frame_id
    /\ Cardinality(DOMAIN centers) = 1

====
